---- MODULE Spec2Model ----
(***************************************************************************)
(* A model of ThunderKittens' TMA layer (src/ops/warp/memory/tma.cuh):     *)
(* the host-side construction of a tensor map (create_tensor_map), the     *)
(* coordinates the device operations prefetch / store_async / load_async   *)
(* hand to the copy engine, the mbarrier protocol of init_barrier /        *)
(* set_barrier_bytes / arrive_and_wait, and the bulk store groups of       *)
(* store_commit_group / store_async_wait.                                  *)
(*                                                                         *)
(* C arrays are 0-based, TLA+ sequences 1-based: gmem_shape[k] of the      *)
(* source is gmem_shape(..)[k+1] here.  All quantities stay far below      *)
(* 2^31, so int32_t / uint32_t / uint64_t arithmetic never wraps inside    *)
(* the bounds of the model.                                                *)
(***************************************************************************)
EXTENDS Integers, Sequences, FiniteSets, TLC

----------------------------------------------------------------------------
(* Bounds of the model.                                                     *)

\* SpecMap: tile heights and widths range over 1..MaxTileDim units of 16.
MaxTileDim == 17
\* SpecMap: num_blocks ranges over 1..MaxBlocks.
MaxBlocks == 4
\* SpecCrd: tile heights and widths range over 1..MaxCrdDim units of 16.
MaxCrdDim == 2
\* SpecCrd: num_blocks ranges over 1..MaxCrdBlocks.
MaxCrdBlocks == 2
\* SpecCrd: tile indices range over 0..MaxIdx (beyond num_blocks - 1 too).
MaxIdx == 2
\* Device specifications: the copy engine moves a tile in NumChunks pieces.
NumChunks == 2
\* Device specifications: tiles of the global tensor.
DevBlocks == 2
\* Device specifications: loads in flight at once.
MaxLoads == 1
\* Device specifications: bulk stores in flight at once, and store groups
\* per thread.
MaxStores == 2
MaxGroups == 2
\* Device specifications: calls recorded per initialisation of the barrier.
MaxBarLog == 6
\* Device specifications: arrival counts range over 1..MaxTc.
MaxTc == 2
MaxCycles == 3

----------------------------------------------------------------------------
(* The tile-layout metadata the source reads: ST::rows, ST::cols,           *)
(* ST::width and ST::layout.                                                *)

\* sizeof(bf16)
sizeof_bf16 == 2

\* The elements of one 16 x 16 subtile side; rows and cols are multiples.
TILE_DIM == 16

Layouts == {"naive", "tma_swizzle", "wgmma_row_0b", "wgmma_col_t_0b"}

\* ST::width values a tile with the given cols is instantiated with: the
\* number of 32-byte granules its row spans, and the three widths that
\* select a swizzle mode.
WidthsOf(cols) == {cols \div TILE_DIM, 1, 2, 4}

TileTypes(maxdim) ==
    { [rows |-> TILE_DIM * h, cols |-> TILE_DIM * w, width |-> wd, layout |-> l] :
        <<h, w, wd, l>> \in
            { q \in (1..maxdim) \X (1..maxdim) \X (1..maxdim) \X Layouts :
                q[3] \in WidthsOf(TILE_DIM * q[2]) } }

\* A tile whose width is the number of 32-byte granules of its row.
WellFormed(T) == T.cols = TILE_DIM * T.width

st_type_2d_tma_layout(T) == T.layout \in {"naive", "tma_swizzle"}
st_type_wgmma_row_layout(T) == T.layout = "wgmma_row_0b"
st_type_wgmma_col_t_layout(T) == T.layout = "wgmma_col_t_0b"
st_type_tma_layout(T) ==
    st_type_2d_tma_layout(T) \/ st_type_wgmma_row_layout(T) \/ st_type_wgmma_col_t_layout(T)

\* sizeof(ST): rows * cols elements of bf16.
sizeof_ST(T) == T.rows * T.cols * sizeof_bf16

----------------------------------------------------------------------------
(* create_tensor_map: the arrays it fills and the checks it makes.          *)

tma_dim(T) == IF st_type_2d_tma_layout(T) THEN 2 ELSE 5

tma_swizzle_from_size(T) ==
    CASE T.width = 1 -> "SWIZZLE_32B"
      [] T.width = 2 -> "SWIZZLE_64B"
      [] T.width = 4 -> "SWIZZLE_128B"
      [] OTHER       -> "SWIZZLE_INVALID"

tma_swizzle(T) ==
    IF T.layout = "tma_swizzle" THEN tma_swizzle_from_size(T) ELSE "SWIZZLE_NONE"

global_tile_height(T, nb) == nb * T.rows
global_tile_width(T) == T.cols
shared_tile_height(T) == T.rows
shared_tile_width(T) == T.cols

\* The global shape of a tensor of one tile more.
gmem_shape_extra(T, nb) ==
    IF st_type_2d_tma_layout(T)
    THEN <<global_tile_width(T), global_tile_height(T, nb + 1), 0, 0, 0>>
    ELSE IF st_type_wgmma_row_layout(T)
    THEN <<8, 8, 2, global_tile_height(T, nb + 1) \div 8, global_tile_width(T) \div 16>>
    ELSE <<8, 8, 2, global_tile_width(T) \div 8, global_tile_height(T, nb + 1) \div 16>>

gmem_shape(T, nb) ==
    IF st_type_2d_tma_layout(T)
    THEN <<global_tile_width(T), global_tile_height(T, nb), 0, 0, 0>>
    ELSE IF st_type_wgmma_row_layout(T)
    THEN <<8, 8, 2, global_tile_height(T, nb) \div 8, global_tile_width(T) \div 16>>
    ELSE <<8, 8, 2, global_tile_width(T) \div 8, global_tile_height(T, nb) \div 16>>

\* gmem_stride with the strides of dimensions 3 and 4 of the transposed
\* layout taken from the row layout.
gmem_stride_mixed(T, nb) ==
    IF st_type_2d_tma_layout(T)
    THEN <<shared_tile_width(T) * sizeof_bf16, 0, 0, 0>>
    ELSE <<global_tile_width(T) * sizeof_bf16,
           8 * sizeof_bf16,
           8 * global_tile_width(T) * sizeof_bf16,
           16 * sizeof_bf16>>

gmem_stride(T, nb) ==
    IF st_type_2d_tma_layout(T)
    THEN <<shared_tile_width(T) * sizeof_bf16, 0, 0, 0>>
    ELSE IF st_type_wgmma_row_layout(T)
    THEN <<global_tile_width(T) * sizeof_bf16,
           8 * sizeof_bf16,
           8 * global_tile_width(T) * sizeof_bf16,
           16 * sizeof_bf16>>
    ELSE <<global_tile_width(T) * sizeof_bf16,
           8 * global_tile_width(T) * sizeof_bf16,
           8 * sizeof_bf16,
           16 * global_tile_width(T) * sizeof_bf16>>

smem_shape(T) ==
    IF st_type_2d_tma_layout(T)
    THEN <<shared_tile_width(T), shared_tile_height(T), 0, 0, 0>>
    ELSE IF st_type_wgmma_row_layout(T)
    THEN <<8, 8, 2, shared_tile_height(T) \div 8, shared_tile_width(T) \div 16>>
    ELSE <<8, 8, 2, shared_tile_width(T) \div 8, shared_tile_height(T) \div 16>>

smem_stride == <<1, 1, 1, 1, 1>>

\* assert((global_addr & 0b1111) == 0)
AddrAligned(addr) == addr % 16 = 0

\* assert(gmem_stride[k] % 16 == 0), k = 0..3
GmemStrideOK(T, nb) == \A k \in 1..4 : gmem_stride(T, nb)[k] % 16 = 0

\* assert(smem_shape[k] <= 256), k = 0..4
SmemShapeOK(T) == \A k \in 1..5 : smem_shape(T)[k] <= 256

\* The check on the elements, not the bytes, of the innermost box dimension.
SmemInnerOK_elems(T) == smem_shape(T)[1] % 16 = 0

\* assert(smem_shape[0] * sizeof(bf16) % 16 == 0)
SmemInnerOK(T) == (smem_shape(T)[1] * sizeof_bf16) % 16 = 0

\* assert(smem_stride[k] <= 8), k = 0..4, and assert(smem_stride[0] == 1)
SmemStrideOK == (\A k \in 1..5 : smem_stride[k] <= 8) /\ smem_stride[1] = 1

\* The granule taken as 16 bytes per width unit.
swizzle_size_16(T) == T.width * 16

\* constexpr int swizzle_size = (ST::width) * 32
swizzle_size(T) == T.width * 32

\* if constexpr (... tma_swizzle != CU_TENSOR_MAP_SWIZZLE_NONE)
\*     assert(smem_shape[0] * sizeof(bf16) <= swizzle_size)
SwizzleFitOK(T) ==
    tma_swizzle(T) # "SWIZZLE_NONE" => smem_shape(T)[1] * sizeof_bf16 <= swizzle_size(T)

\* Every assertion of create_tensor_map holds.
AssertsPass(T, nb, addr) ==
    /\ AddrAligned(addr)
    /\ GmemStrideOK(T, nb)
    /\ SmemShapeOK(T)
    /\ SmemInnerOK(T)
    /\ SmemStrideOK
    /\ SwizzleFitOK(T)

\* What the driver's cuTensorMapEncodeTiled accepts: its documented
\* requirements are the asserted ones plus a valid swizzle enumerator.
EncodeAccepts(T, nb, addr) ==
    AssertsPass(T, nb, addr) /\ tma_swizzle(T) # "SWIZZLE_INVALID"

\* The CUresult values the encode call can return for these arguments.
EncodeResults(T, nb, addr) ==
    IF EncodeAccepts(T, nb, addr)
    THEN {"CUDA_SUCCESS", "CUDA_ERROR_NOT_INITIALIZED"}
    ELSE {"CUDA_ERROR_INVALID_VALUE"}

\* cuGetErrorString
cuGetErrorString(result) ==
    CASE result = "CUDA_ERROR_INVALID_VALUE"   -> "invalid argument"
      [] result = "CUDA_ERROR_NOT_INITIALIZED" -> "initialization error"
      [] OTHER                                 -> "no error"

\* The CUtensorMap before create_tensor_map ran.
UnbuiltMap ==
    [status |-> "unbuilt", result |-> "none", dim |-> 0,
     gshape |-> <<0, 0, 0, 0, 0>>, gstride |-> <<0, 0, 0, 0>>,
     sshape |-> <<0, 0, 0, 0, 0>>, sstride |-> <<0, 0, 0, 0, 0>>,
     swizzle |-> "SWIZZLE_NONE"]

\* The CUtensorMap a successful cuTensorMapEncodeTiled fills in.
EncodedMap(T, nb) ==
    [status |-> "returned", result |-> "CUDA_SUCCESS", dim |-> tma_dim(T),
     gshape |-> gmem_shape(T, nb), gstride |-> gmem_stride(T, nb),
     sshape |-> smem_shape(T), sstride |-> smem_stride,
     swizzle |-> tma_swizzle(T)]

----------------------------------------------------------------------------
(* The addressing contract of a tiled tensor map: dimension 0 has the       *)
(* element size as its stride, dimension k >= 1 has globalStrides[k-1]      *)
(* bytes; a copy addresses the box of boxDim elements that starts at the    *)
(* coordinate of the instruction.                                           *)

\* Byte stride of dimension k (1-based) of the map.
DimStride(map, k) == IF k = 1 THEN sizeof_bf16 ELSE map.gstride[k - 1]

\* Element offset, from the base address, of a 5-entry coordinate.
Offset(map, c) ==
    (c[1] * DimStride(map, 1) + c[2] * DimStride(map, 2) + c[3] * DimStride(map, 3)
       + c[4] * DimStride(map, 4) + c[5] * DimStride(map, 5)) \div sizeof_bf16

\* A coordinate of the map's rank, padded with zeros to five entries.
Pad5(map, crd) == [k \in 1..5 |-> IF k <= map.dim THEN crd[k] ELSE 0]

\* The coordinates of one dimension that a box starting at lo covers.
BoxRange(map, k, lo) == IF k <= map.dim THEN lo..(lo + map.sshape[k] - 1) ELSE {0}

\* The coordinates of one dimension that lie inside the global shape.
ShapeRange(map, k) == IF k <= map.dim THEN 0..(map.gshape[k] - 1) ELSE {0}

\* The element offsets addressed by a copy whose box starts at crd.
Box(map, crd) ==
    LET s == Pad5(map, crd) IN
    { Offset(map, c) : c \in BoxRange(map, 1, s[1]) \X BoxRange(map, 2, s[2]) \X
                            BoxRange(map, 3, s[3]) \X BoxRange(map, 4, s[4]) \X
                            BoxRange(map, 5, s[5]) }

\* The coordinates inside the global shape of the map.
InRange(map) ==
    ShapeRange(map, 1) \X ShapeRange(map, 2) \X ShapeRange(map, 3) \X
    ShapeRange(map, 4) \X ShapeRange(map, 5)

----------------------------------------------------------------------------
(* The device side: which lanes issue, and with which coordinate.           *)

\* Warps of the thread block, and lanes per warp (32 on the hardware).
NumWarps == 2
WarpLanes == 2

Warps == 0..(NumWarps - 1)
Threads == 0..(NumWarps * WarpLanes - 1)

\* ::kittens::laneid() of the thread with threadIdx.x = t.
laneid(t) == t % WarpLanes
warpid(t) == t \div WarpLanes
ThreadsOf(w) == { t \in Threads : warpid(t) = w }

\* Variants of the code below, each with one plausible slip.
load_async_crd_cols(T, tile_idx) ==
    IF st_type_2d_tma_layout(T)
    THEN <<0, tile_idx * T.cols>>
    ELSE <<0, 0, 0,
           IF st_type_wgmma_row_layout(T) THEN tile_idx * (T.rows \div 8) ELSE 0,
           IF st_type_wgmma_row_layout(T) THEN 0 ELSE tile_idx * (T.rows \div 16)>>

prefetch_crd_swapped(T, tile_idx) ==
    IF st_type_2d_tma_layout(T)
    THEN <<0, tile_idx * T.rows>>
    ELSE <<0, 0, 0,
           IF st_type_wgmma_row_layout(T) THEN 0 ELSE tile_idx * (T.rows \div 16),
           IF st_type_wgmma_row_layout(T) THEN tile_idx * (T.rows \div 8) ELSE 0>>

store_async_crd_half(T, tile_idx) ==
    IF st_type_2d_tma_layout(T)
    THEN <<0, tile_idx * T.rows>>
    ELSE <<0, 0, 0,
           IF st_type_wgmma_row_layout(T) THEN tile_idx * (T.rows \div 16) ELSE 0,
           IF st_type_wgmma_row_layout(T) THEN 0 ELSE tile_idx * (T.rows \div 16)>>

\* The guard around each instruction.
prefetch_issues(t) == t = 0
store_async_issues(t) == laneid(t) = 0
load_async_issues(t) == laneid(t) = 0

\* The coordinate prefetch computes for tile_idx.
prefetch_crd(T, tile_idx) ==
    IF st_type_2d_tma_layout(T)
    THEN <<0, tile_idx * T.rows>>
    ELSE <<0, 0, 0,
           IF st_type_wgmma_row_layout(T) THEN tile_idx * (T.rows \div 8) ELSE 0,
           IF st_type_wgmma_row_layout(T) THEN 0 ELSE tile_idx * (T.rows \div 16)>>

\* The coordinate store_async computes for tile_idx.
store_async_crd(T, tile_idx) ==
    IF st_type_2d_tma_layout(T)
    THEN <<0, tile_idx * T.rows>>
    ELSE <<0, 0, 0,
           IF st_type_wgmma_row_layout(T) THEN tile_idx * (T.rows \div 8) ELSE 0,
           IF st_type_wgmma_row_layout(T) THEN 0 ELSE tile_idx * (T.rows \div 16)>>

\* The coordinate load_async computes for tile_idx.
load_async_crd(T, tile_idx) ==
    IF st_type_2d_tma_layout(T)
    THEN <<0, tile_idx * T.rows>>
    ELSE <<0, 0, 0,
           IF st_type_wgmma_row_layout(T) THEN tile_idx * (T.rows \div 8) ELSE 0,
           IF st_type_wgmma_row_layout(T) THEN 0 ELSE tile_idx * (T.rows \div 16)>>

----------------------------------------------------------------------------
(* State.                                                                   *)

VARIABLES
    ST,          \* the tile type create_tensor_map and the device calls are instantiated with
    num_blocks,  \* the num_blocks template argument
    src_ptr,     \* the global base address handed to create_tensor_map
    ndebug,      \* TRUE when the build compiles the assertions out
    tma_map,     \* the CUtensorMap
    cerr,        \* what was written to std::cerr
    issued,      \* the last warp-wide call of a transfer operation and what it issued
    gmem,        \* global memory: the content of each tile of the tensor, by chunk
    src_tile,    \* shared memory: the tile store_async reads
    dst_tile,    \* shared memory: the tile load_async fills
    l2,          \* the tiles a prefetch has asked the L2 cache to hold
    bar,         \* the mbarrier object
    bar_log,     \* the calls that acted on the barrier since its initialisation
    loads,       \* the bulk loads in flight
    open,        \* per thread, its bulk stores not yet committed to a group
    groups,      \* per thread, its committed bulk async-groups, oldest first
    pc,          \* per thread, where it is: running, or inside one of the two waits
    waitN,       \* per thread, the N of the store_async_wait<N> it is in
    kPhaseBit,   \* per thread, the phase bit of the arrive_and_wait it is in
    spc          \* per thread, its position in the round-trip kernel (0 when not in it)

hvars == <<ST, num_blocks, src_ptr, ndebug, tma_map, cerr>>
memvars == <<gmem, src_tile, dst_tile, l2>>
barvars == <<bar, bar_log, loads>>
stvars == <<open, groups>>
thvars == <<pc, waitN, kPhaseBit>>
dvars == <<memvars, barvars, stvars, thvars>>
vars == <<hvars, issued, dvars, spc>>

----------------------------------------------------------------------------
(* The device state: memory, the mbarrier, the copy engine's queues.        *)

Chunks == 1..NumChunks

\* Tile contents: a tile nothing was loaded into, and the tile the kernel
\* stores; they differ from each other and from the initial global memory
\* in every chunk.
ZeroTile == [c \in Chunks |-> 0]
SrcTile == [c \in Chunks |-> 3]

\* The bytes of chunk c of a tile of type T: the complete_tx amount.
ChunkBytes(T, c) ==
    IF c < NumChunks THEN sizeof_ST(T) \div NumChunks
    ELSE sizeof_ST(T) - (NumChunks - 1) * (sizeof_ST(T) \div NumChunks)

\* The tile of the global tensor at which the box of a coordinate starts.
SlotOf(map, T, crd) == Offset(map, Pad5(map, crd)) \div (T.rows * T.cols)

\* The content of global memory before the kernel runs.
InitGmem == [s \in 0..(DevBlocks - 1) |-> [c \in Chunks |-> 1 + ((s + c) % 2)]]

\* An mbarrier object no mbarrier.init has run on.
NoBarrier == [inited |-> FALSE, count |-> 0, pending |-> 0, tx |-> 0, phase |-> 0]

\* The device before any device call.
DevIdle ==
    /\ gmem = InitGmem
    /\ src_tile = ZeroTile
    /\ dst_tile = ZeroTile
    /\ l2 = {}
    /\ bar = NoBarrier
    /\ bar_log = <<>>
    /\ loads = <<>>
    /\ open = [t \in Threads |-> <<>>]
    /\ groups = [t \in Threads |-> <<>>]
    /\ pc = [t \in Threads |-> "run"]
    /\ waitN = [t \in Threads |-> 0]
    /\ kPhaseBit = [t \in Threads |-> 0]
    /\ spc = [t \in Threads |-> 0]

NoIssue == [op |-> "none", warp |-> 0, idx |-> 0, crd |-> <<>>, lanes |-> {}]

\* Base addresses: 16-byte aligned and not.
Addrs == {32, 40}

----------------------------------------------------------------------------
(* create_tensor_map (host).                                                *)

create_tensor_map ==
    /\ tma_map.status = "unbuilt"
    /\ IF ~ndebug /\ ~AssertsPass(ST, num_blocks, src_ptr)
       THEN /\ tma_map' = [tma_map EXCEPT !.status = "aborted"]
            /\ cerr' = cerr
       ELSE \E result \in EncodeResults(ST, num_blocks, src_ptr) :
               /\ tma_map' = IF result = "CUDA_SUCCESS"
                             THEN EncodedMap(ST, num_blocks)
                             ELSE [tma_map EXCEPT !.status = "returned", !.result = result]
               /\ cerr' = IF result # "CUDA_SUCCESS"
                          THEN Append(cerr, <<"Error: ", cuGetErrorString(result)>>)
                          ELSE cerr
    /\ UNCHANGED <<ST, num_blocks, src_ptr, ndebug, issued, dvars, spc>>

----------------------------------------------------------------------------
(* SpecMap: create_tensor_map over the tile types.                          *)

InitMap ==
    /\ ST \in TileTypes(MaxTileDim)
    /\ num_blocks \in 1..MaxBlocks
    /\ src_ptr \in Addrs
    /\ ndebug \in BOOLEAN
    /\ tma_map = UnbuiltMap
    /\ cerr = <<>>
    /\ issued = NoIssue
    /\ DevIdle

NextMap == create_tensor_map

SpecMap == InitMap /\ [][NextMap]_vars

----------------------------------------------------------------------------
(* SpecCrd: the coordinates of the device calls against a built map.        *)

\* Every lane of warp w calls prefetch(dst, map, i).
IssuePrefetch(w, i) ==
    /\ tma_map.result = "CUDA_SUCCESS"
    /\ issued' = [op |-> "prefetch", warp |-> w, idx |-> i,
                  crd |-> prefetch_crd(ST, i),
                  lanes |-> { t \in ThreadsOf(w) : prefetch_issues(t) }]
    /\ UNCHANGED <<hvars, dvars, spc>>

\* Every lane of warp w calls store_async(map, src, i).
IssueStore(w, i) ==
    /\ tma_map.result = "CUDA_SUCCESS"
    /\ issued' = [op |-> "store_async", warp |-> w, idx |-> i,
                  crd |-> store_async_crd(ST, i),
                  lanes |-> { t \in ThreadsOf(w) : store_async_issues(t) }]
    /\ UNCHANGED <<hvars, dvars, spc>>

\* Every lane of warp w calls load_async(dst, map, i, barrier).
IssueLoad(w, i) ==
    /\ tma_map.result = "CUDA_SUCCESS"
    /\ issued' = [op |-> "load_async", warp |-> w, idx |-> i,
                  crd |-> load_async_crd(ST, i),
                  lanes |-> { t \in ThreadsOf(w) : load_async_issues(t) }]
    /\ UNCHANGED <<hvars, dvars, spc>>

\* The tile types of the two addressing scenarios of the specification.
ScenarioTypes ==
    { [rows |-> 64, cols |-> 64, width |-> 4, layout |-> "tma_swizzle"],
      [rows |-> 128, cols |-> 16, width |-> 1, layout |-> "wgmma_row_0b"] }

InitCrd ==
    /\ ST \in { T \in TileTypes(MaxCrdDim) : WellFormed(T) } \cup ScenarioTypes
    /\ num_blocks \in 1..MaxCrdBlocks
    /\ src_ptr = 32
    /\ ndebug = FALSE
    /\ tma_map = UnbuiltMap
    /\ cerr = <<>>
    /\ issued = NoIssue
    /\ DevIdle

NextCrd ==
    \/ create_tensor_map
    \/ \E w \in Warps, i \in 0..MaxIdx : IssuePrefetch(w, i)
    \/ \E w \in Warps, i \in 0..MaxIdx : IssueStore(w, i)
    \/ \E w \in Warps, i \in 0..MaxIdx : IssueLoad(w, i)

SpecCrd == InitCrd /\ [][NextCrd]_vars

----------------------------------------------------------------------------
(* The mbarrier instructions (PTX): a phase completes when the pending      *)
(* arrivals and the tx-count are both zero; the phase parity then flips     *)
(* and the pending arrivals are reset to the count given to mbarrier.init.  *)

\* mbarrier.init.shared::cta.b64 [bar], tc
mbarrier_init(tc) ==
    [inited |-> TRUE, count |-> tc, pending |-> tc, tx |-> 0, phase |-> 0]

\* A completion check that does not look at the tx-count.
mbarrier_settle_no_tx(b) ==
    IF b.pending = 0
    THEN [b EXCEPT !.phase = 1 - @, !.pending = b.count]
    ELSE b

\* The phase completion check that follows every arrive-on and complete-tx.
mbarrier_settle(b) ==
    IF b.pending = 0 /\ b.tx = 0
    THEN [b EXCEPT !.phase = 1 - @, !.pending = b.count]
    ELSE b

\* An expect-tx of bytes that makes no arrival.
mbarrier_expect_tx_only(b, bytes) == mbarrier_settle([b EXCEPT !.tx = @ + bytes])

\* mbarrier.arrive.expect_tx.shared::cta.b64 _, [bar], bytes: an expect-tx
\* of bytes followed by one arrival.
mbarrier_arrive_expect_tx(b, bytes) ==
    mbarrier_settle([b EXCEPT !.tx = @ + bytes, !.pending = @ - 1])

\* A complete-tx that is not followed by the completion check.
mbarrier_complete_tx_unchecked(b, bytes) == [b EXCEPT !.tx = @ - bytes]

\* The complete_tx::bytes a bulk load signals for the bytes it delivered.
mbarrier_complete_tx(b, bytes) == mbarrier_settle([b EXCEPT !.tx = @ - bytes])

\* The test that passes on the phase of the other parity.
mbarrier_try_wait_parity_same(b, phaseParity) == b.phase = phaseParity

\* mbarrier.try_wait.parity.shared::cta.b64 P1, [bar], phaseParity: true
\* when the phase of that parity has completed, which for the two phases
\* a parity tells apart is when the current phase has the other parity.
mbarrier_try_wait_parity(b, phaseParity) == b.phase # phaseParity

----------------------------------------------------------------------------
(* Bulk async-groups (PTX): per thread; cp.async.bulk.wait_group N waits    *)
(* until all but the most recent N groups of the thread are complete.       *)

Remove(seq, k) == SubSeq(seq, 1, k - 1) \o SubSeq(seq, k + 1, Len(seq))

\* One chunk of the operation at position k of a queue was moved.
Progress(q, k, c) ==
    IF q[k].left = {c} THEN Remove(q, k) ELSE [q EXCEPT ![k].left = @ \ {c}]

\* Groups that completed leave the head of the thread's list.
RECURSIVE DropDone(_)
DropDone(gs) == IF gs # <<>> /\ Head(gs) = <<>> THEN DropDone(Tail(gs)) ELSE gs

\* The committed groups of a thread that are not complete.
Incomplete(gs) == Cardinality({ g \in 1..Len(gs) : gs[g] # <<>> })

\* A wait that lets one group more than N stay pending.
wait_group_done_plus1(gs, N) == \A g \in 1..(Len(gs) - N - 1) : gs[g] = <<>>

\* cp.async.bulk.wait_group N has nothing left to wait for.
wait_group_done(gs, N) == \A g \in 1..(Len(gs) - N) : gs[g] = <<>>

\* A __syncwarp() that lets a lane through as soon as it arrives.
syncwarp_done_any(w, pcs) == \E t \in ThreadsOf(w) : pcs[t] = "syncwarp"

\* __syncwarp(): every lane of the warp has arrived.
syncwarp_done(w, pcs) == \A t \in ThreadsOf(w) : pcs[t] = "syncwarp"

\* The bulk stores of a thread that are in flight.
RECURSIVE GroupOps(_)
GroupOps(gs) == IF gs = <<>> THEN 0 ELSE Len(Head(gs)) + GroupOps(Tail(gs))

RECURSIVE StoresOf(_)
StoresOf(S) ==
    IF S = {} THEN 0
    ELSE LET t == CHOOSE x \in S : TRUE
         IN Len(open[t]) + GroupOps(groups[t]) + StoresOf(S \ {t})

\* The bulk stores in flight, over all threads.
StoresInFlight == StoresOf(Threads)

\* The lane guards of the remaining device functions.
set_barrier_bytes_issues(t) == laneid(t) = 0
init_barrier_issues(t) == laneid(t) = 0
store_commit_group_issues(t) == laneid(t) = 0

\* The thread of warp w that issues its stores.
Issuer(w) == CHOOSE t \in ThreadsOf(w) : laneid(t) = 0

----------------------------------------------------------------------------
(* The device functions, one thread calling.  A call by a lane the guard    *)
(* excludes returns without effect.                                         *)

\* A prefetch that also fills the destination tile.
prefetch_into_dst(t, i) ==
    /\ pc[t] = "run"
    /\ tma_map.result = "CUDA_SUCCESS"
    /\ l2' = IF prefetch_issues(t)
             THEN l2 \cup {SlotOf(tma_map, ST, prefetch_crd(ST, i))}
             ELSE l2
    /\ dst_tile' = IF prefetch_issues(t) THEN gmem[i] ELSE dst_tile
    /\ UNCHANGED <<hvars, issued, gmem, src_tile, barvars, stvars, thvars>>

prefetch(t, i) ==
    /\ pc[t] = "run"
    /\ tma_map.result = "CUDA_SUCCESS"
    /\ l2' = IF prefetch_issues(t)
             THEN l2 \cup {SlotOf(tma_map, ST, prefetch_crd(ST, i))}
             ELSE l2
    /\ UNCHANGED <<hvars, issued, gmem, src_tile, dst_tile, barvars, stvars, thvars>>

store_async(t, i) ==
    /\ pc[t] = "run"
    /\ tma_map.result = "CUDA_SUCCESS"
    /\ IF store_async_issues(t)
       THEN /\ StoresInFlight < MaxStores
            /\ open' = [open EXCEPT ![t] =
                          Append(@, [slot |-> SlotOf(tma_map, ST, store_async_crd(ST, i)),
                                     left |-> Chunks])]
       ELSE open' = open
    /\ UNCHANGED <<hvars, issued, memvars, barvars, groups, thvars>>

load_async(t, i) ==
    /\ pc[t] = "run"
    /\ tma_map.result = "CUDA_SUCCESS"
    /\ IF load_async_issues(t)
       THEN /\ bar.inited
            /\ Len(loads) < MaxLoads
            /\ Len(bar_log) < MaxBarLog
            /\ loads' = Append(loads, [slot |-> SlotOf(tma_map, ST, load_async_crd(ST, i)),
                                       left |-> Chunks])
            /\ bar_log' = Append(bar_log, [op |-> "load_async", typed |-> FALSE, n |-> i])
       ELSE UNCHANGED <<loads, bar_log>>
    /\ UNCHANGED <<hvars, issued, memvars, bar, stvars, thvars>>

\* The caller arms a barrier that still expects an arrival.
set_barrier_bytes(t, bytes) ==
    /\ pc[t] = "run"
    /\ IF set_barrier_bytes_issues(t)
       THEN /\ bar.inited
            /\ bar.pending > 0
            /\ Len(bar_log) < MaxBarLog
            /\ bar' = mbarrier_arrive_expect_tx(bar, bytes)
            /\ bar_log' = Append(bar_log, [op |-> "set_barrier_bytes", typed |-> FALSE, n |-> bytes])
       ELSE UNCHANGED <<bar, bar_log>>
    /\ UNCHANGED <<hvars, issued, memvars, loads, stvars, thvars>>

\* typed: T is a tile type (ST), not ducks::default_type.  The caller does
\* not initialise a barrier that a load or a waiting thread still uses.
init_barrier(t, typed, tc) ==
    /\ pc[t] = "run"
    /\ IF init_barrier_issues(t)
       THEN /\ loads = <<>>
            /\ bar.inited => \A u \in Threads : pc[u] # "try_wait"
            /\ bar' = IF typed /\ set_barrier_bytes_issues(t)
                      THEN mbarrier_arrive_expect_tx(mbarrier_init(tc), sizeof_ST(ST))
                      ELSE mbarrier_init(tc)
            /\ bar_log' = <<[op |-> "init_barrier", typed |-> typed, n |-> tc]>>
       ELSE UNCHANGED <<bar, bar_log>>
    /\ UNCHANGED <<hvars, issued, memvars, loads, stvars, thvars>>

\* arrive_and_wait, entered: the thread is at LAB_WAIT.  Nothing orders the
\* call after lane 0's mbarrier.init: init_barrier ends without a barrier.
arrive_and_wait_enter(t, phase) ==
    /\ pc[t] = "run"
    /\ pc' = [pc EXCEPT ![t] = "try_wait"]
    /\ kPhaseBit' = [kPhaseBit EXCEPT ![t] = phase]
    /\ UNCHANGED <<hvars, issued, memvars, barvars, stvars, waitN>>

\* arrive_and_wait, left: try_wait set P1 and the thread branched to DONE.
\* An iteration whose try_wait fails changes nothing.  On a barrier no
\* mbarrier.init has run on, P1 is either value.
arrive_and_wait_return(t) ==
    /\ pc[t] = "try_wait"
    /\ bar.inited => mbarrier_try_wait_parity(bar, kPhaseBit[t])
    /\ pc' = [pc EXCEPT ![t] = "run"]
    /\ kPhaseBit' = [kPhaseBit EXCEPT ![t] = 0]
    /\ UNCHANGED <<hvars, issued, memvars, barvars, stvars, waitN>>

\* A commit that opens a group and leaves the stores issued so far out
\* of it.
store_commit_group_none(t) ==
    /\ pc[t] = "run"
    /\ IF store_commit_group_issues(t)
       THEN /\ Len(groups[t]) < MaxGroups
            /\ open[t] # <<>>
            /\ groups' = [groups EXCEPT ![t] = Append(@, <<>>)]
            /\ open' = open
       ELSE UNCHANGED <<open, groups>>
    /\ UNCHANGED <<hvars, issued, memvars, barvars, thvars>>

store_commit_group(t) ==
    /\ pc[t] = "run"
    /\ IF store_commit_group_issues(t)
       THEN /\ Len(groups[t]) < MaxGroups
            /\ groups' = [groups EXCEPT ![t] = Append(@, open[t])]
            /\ open' = [open EXCEPT ![t] = <<>>]
       ELSE UNCHANGED <<open, groups>>
    /\ UNCHANGED <<hvars, issued, memvars, barvars, thvars>>

\* store_async_wait<N>, entered: the thread is at cp.async.bulk.wait_group.
\* The lanes of a warp are in the same instantiation.
store_async_wait_enter(t, N) ==
    /\ pc[t] = "run"
    /\ \A u \in ThreadsOf(warpid(t)) : pc[u] \in {"wait_group", "syncwarp"} => waitN[u] = N
    /\ pc' = [pc EXCEPT ![t] = "wait_group"]
    /\ waitN' = [waitN EXCEPT ![t] = N]
    /\ UNCHANGED <<hvars, issued, memvars, barvars, stvars, kPhaseBit>>

\* store_async_wait<N>: the wait_group instruction completed; the thread
\* is at __syncwarp().
store_async_wait_group(t) ==
    /\ pc[t] = "wait_group"
    /\ wait_group_done(groups[t], waitN[t])
    /\ pc' = [pc EXCEPT ![t] = "syncwarp"]
    /\ UNCHANGED <<hvars, issued, memvars, barvars, stvars, waitN, kPhaseBit>>

\* store_async_wait<N>, left: __syncwarp() released the lanes of warp w.
store_async_wait_return(w) ==
    /\ syncwarp_done(w, pc)
    /\ pc' = [t \in Threads |-> IF warpid(t) = w /\ pc[t] = "syncwarp" THEN "run" ELSE pc[t]]
    /\ waitN' = [t \in Threads |-> IF warpid(t) = w /\ pc[t] = "syncwarp" THEN 0 ELSE waitN[t]]
    /\ UNCHANGED <<hvars, issued, memvars, barvars, stvars, kPhaseBit>>

----------------------------------------------------------------------------
(* The copy engine.                                                         *)

\* Global memory with chunk c of tile slot overwritten; a box outside the
\* tensor is not written.
GmemWrite(slot, c, v) ==
    IF slot \in DOMAIN gmem THEN [gmem EXCEPT ![slot][c] = v] ELSE gmem

\* Chunk c of tile slot; a box outside the tensor reads as zero.
GmemRead(slot, c) == IF slot \in DOMAIN gmem THEN gmem[slot][c] ELSE 0

\* The engine delivers chunk c of the load at position k and signals its
\* bytes to the barrier.
engine_load(k, c) ==
    /\ k \in 1..Len(loads)
    /\ c \in loads[k].left
    /\ dst_tile' = [dst_tile EXCEPT ![c] = GmemRead(loads[k].slot, c)]
    /\ bar' = mbarrier_complete_tx(bar, ChunkBytes(ST, c))
    /\ loads' = Progress(loads, k, c)
    /\ UNCHANGED <<hvars, issued, gmem, src_tile, l2, bar_log, stvars, thvars>>

\* The engine writes chunk c of the uncommitted store at position k of
\* thread t.
engine_store_open(t, k, c) ==
    /\ k \in 1..Len(open[t])
    /\ c \in open[t][k].left
    /\ gmem' = GmemWrite(open[t][k].slot, c, src_tile[c])
    /\ open' = [open EXCEPT ![t] = Progress(@, k, c)]
    /\ UNCHANGED <<hvars, issued, src_tile, dst_tile, l2, barvars, groups, thvars>>

\* The engine writes chunk c of the store at position k of group g of
\* thread t.
engine_store_group(t, g, k, c) ==
    /\ g \in 1..Len(groups[t])
    /\ k \in 1..Len(groups[t][g])
    /\ c \in groups[t][g][k].left
    /\ gmem' = GmemWrite(groups[t][g][k].slot, c, src_tile[c])
    /\ groups' = [groups EXCEPT ![t] = DropDone([@ EXCEPT ![g] = Progress(@, k, c)])]
    /\ UNCHANGED <<hvars, issued, src_tile, dst_tile, l2, barvars, open, thvars>>

\* The L2 cache drops a prefetched tile.
l2_evict(s) ==
    /\ s \in l2
    /\ l2' = l2 \ {s}
    /\ UNCHANGED <<hvars, issued, gmem, src_tile, dst_tile, barvars, stvars, thvars>>

----------------------------------------------------------------------------
(* The device specifications start from a built tensor map.                 *)

\* A 16 x 16 tile in a 2D, the blocked-row and the blocked-col-transposed
\* layout.
DevTypes == { T \in TileTypes(1) : WellFormed(T) /\ T.layout # "naive" }

\* The warp whose lanes call the waits.
WaitThreads == ThreadsOf(0)

DevStart ==
    /\ ST \in DevTypes
    /\ num_blocks = DevBlocks
    /\ src_ptr = 32
    /\ ndebug = FALSE
    /\ tma_map = EncodedMap(ST, num_blocks)
    /\ cerr = <<>>
    /\ issued = NoIssue
    /\ gmem = InitGmem
    /\ src_tile = SrcTile
    /\ dst_tile = ZeroTile
    /\ l2 = {}
    /\ bar = NoBarrier
    /\ bar_log = <<>>
    /\ loads = <<>>
    /\ open = [t \in Threads |-> <<>>]
    /\ groups = [t \in Threads |-> <<>>]
    /\ pc = [t \in Threads |-> "run"]
    /\ waitN = [t \in Threads |-> 0]
    /\ kPhaseBit = [t \in Threads |-> 0]

InitDev == DevStart /\ spc = [t \in Threads |-> 0]

TileIdx == 0..(DevBlocks - 1)

----------------------------------------------------------------------------
(* SpecStore: the store side.                                               *)

StoreAsync(t, i) == store_async(t, i) /\ UNCHANGED spc
StoreCommitGroup(t) == store_commit_group(t) /\ UNCHANGED spc
StoreAsyncWaitEnter(t, N) == store_async_wait_enter(t, N) /\ UNCHANGED spc
StoreAsyncWaitGroup(t) == store_async_wait_group(t) /\ UNCHANGED spc
StoreAsyncWaitReturn(w) == store_async_wait_return(w) /\ UNCHANGED spc
EngineStoreOpen(t, k, c) == engine_store_open(t, k, c) /\ UNCHANGED spc
EngineStoreGroup(t, g, k, c) == engine_store_group(t, g, k, c) /\ UNCHANGED spc

NextStore ==
    \/ \E t \in Threads, i \in TileIdx : StoreAsync(t, i)
    \/ \E t \in Threads : StoreCommitGroup(t)
    \/ \E t \in WaitThreads, N \in 0..(MaxGroups - 1) : StoreAsyncWaitEnter(t, N)
    \/ \E t \in Threads : StoreAsyncWaitGroup(t)
    \/ \E w \in Warps : StoreAsyncWaitReturn(w)
    \/ \E t \in Threads, k \in 1..MaxStores, c \in Chunks : EngineStoreOpen(t, k, c)
    \/ \E t \in Threads, g \in 1..MaxGroups, k \in 1..MaxStores, c \in Chunks :
          EngineStoreGroup(t, g, k, c)

SpecStore == InitDev /\ [][NextStore]_vars

----------------------------------------------------------------------------
(* SpecLoad: the load side.                                                 *)

Prefetch(t, i) == prefetch(t, i) /\ UNCHANGED spc
L2Evict(s) == l2_evict(s) /\ UNCHANGED spc
InitBarrier(t, typed, tc) == init_barrier(t, typed, tc) /\ UNCHANGED spc
SetBarrierBytes(t, bytes) == set_barrier_bytes(t, bytes) /\ UNCHANGED spc
LoadAsync(t, i) == load_async(t, i) /\ UNCHANGED spc
ArriveAndWaitEnter(t, phase) == arrive_and_wait_enter(t, phase) /\ UNCHANGED spc
ArriveAndWaitReturn(t) == arrive_and_wait_return(t) /\ UNCHANGED spc
EngineLoad(k, c) == engine_load(k, c) /\ UNCHANGED spc

NextLoad ==
    \/ \E t \in Threads, i \in TileIdx : Prefetch(t, i)
    \/ \E s \in TileIdx : L2Evict(s)
    \/ \E t \in Threads, typed \in BOOLEAN, tc \in 1..MaxTc : InitBarrier(t, typed, tc)
    \/ \E t \in Threads : SetBarrierBytes(t, sizeof_ST(ST))
    \/ \E t \in Threads, i \in TileIdx : LoadAsync(t, i)
    \/ \E t \in WaitThreads, phase \in {0, 1} : ArriveAndWaitEnter(t, phase)
    \/ \E t \in Threads : ArriveAndWaitReturn(t)
    \/ \E k \in 1..MaxLoads, c \in Chunks : EngineLoad(k, c)

SpecLoad == InitDev /\ [][NextLoad]_vars

----------------------------------------------------------------------------
(* SpecRT: the round-trip kernel.  Every lane of warp 0 runs                *)
(*   1: init_barrier<ST>(bar, 1);                                           *)
(*   2: store_async(map, src, RtIdx);                                       *)
(*   3: store_commit_group();                                               *)
(*   4: store_async_wait<0>();                                              *)
(*   6: load_async(dst, map, RtIdx, bar);                                   *)
(*   7: arrive_and_wait(bar, 0);                                            *)
(*   9: the end                                                             *)
(* (5 and 8: inside the wait), while the other warps store to other tiles.  *)
(* The __syncwarp() of store_async_wait orders lane 0's mbarrier.init       *)
(* before every lane's arrive_and_wait.                                     *)

\* The tile the kernel writes and reads back.
RtIdx == DevBlocks - 1

RtEnd == 9

Goto(t, l) == spc' = [spc EXCEPT ![t] = l]

RtInitBarrier(t) == spc[t] = 1 /\ init_barrier(t, TRUE, 1) /\ Goto(t, 2)
RtStoreAsync(t) == spc[t] = 2 /\ store_async(t, RtIdx) /\ Goto(t, 3)
RtStoreCommitGroup(t) == spc[t] = 3 /\ store_commit_group(t) /\ Goto(t, 4)
RtStoreAsyncWaitEnter(t) == spc[t] = 4 /\ store_async_wait_enter(t, 0) /\ Goto(t, 5)
RtStoreAsyncWaitGroup(t) == spc[t] = 5 /\ store_async_wait_group(t) /\ UNCHANGED spc
RtStoreAsyncWaitReturn ==
    /\ store_async_wait_return(0)
    /\ spc' = [t \in Threads |-> IF spc[t] = 5 /\ pc[t] = "syncwarp" THEN 6 ELSE spc[t]]
RtLoadAsync(t) == spc[t] = 6 /\ load_async(t, RtIdx) /\ Goto(t, 7)
RtArriveAndWaitEnter(t) == spc[t] = 7 /\ arrive_and_wait_enter(t, 0) /\ Goto(t, 8)
RtArriveAndWaitReturn(t) == spc[t] = 8 /\ arrive_and_wait_return(t) /\ Goto(t, RtEnd)

\* A lane of another warp stores to another tile, or commits.
RtOtherStore(t, i) == spc[t] = 0 /\ i # RtIdx /\ StoreAsync(t, i)
RtOtherCommit(t) == spc[t] = 0 /\ StoreCommitGroup(t)

InitRT ==
    /\ DevStart
    /\ spc = [t \in Threads |-> IF warpid(t) = 0 THEN 1 ELSE 0]

NextRT ==
    \/ \E t \in Threads : RtInitBarrier(t)
    \/ \E t \in Threads : RtStoreAsync(t)
    \/ \E t \in Threads : RtStoreCommitGroup(t)
    \/ \E t \in Threads : RtStoreAsyncWaitEnter(t)
    \/ \E t \in Threads : RtStoreAsyncWaitGroup(t)
    \/ RtStoreAsyncWaitReturn
    \/ \E t \in Threads : RtLoadAsync(t)
    \/ \E t \in Threads : RtArriveAndWaitEnter(t)
    \/ \E t \in Threads : RtArriveAndWaitReturn(t)
    \/ \E t \in Threads, i \in TileIdx : RtOtherStore(t, i)
    \/ \E t \in Threads : RtOtherCommit(t)
    \/ \E t \in Threads, k \in 1..MaxStores, c \in Chunks : EngineStoreOpen(t, k, c)
    \/ \E t \in Threads, g \in 1..MaxGroups, k \in 1..MaxStores, c \in Chunks :
          EngineStoreGroup(t, g, k, c)
    \/ \E k \in 1..MaxLoads, c \in Chunks : EngineLoad(k, c)

SpecRT == InitRT /\ [][NextRT]_vars

----------------------------------------------------------------------------
(* SpecReuse: one barrier over several loads.  Every lane of warp 0 runs    *)
(*    1: init_barrier<ST>(bar, 1);                                          *)
(*    2: __syncwarp();                                                      *)
(*   and then, for k = 0, 1, ..:                                            *)
(*    Arm(k):    set_barrier_bytes(bar, sizeof(ST));       (k > 0)          *)
(*    Load(k):   load_async(dst, map, k % DevBlocks, bar);                  *)
(*    Wait(k):   arrive_and_wait(bar, k % 2);                               *)
(*    InWait(k): inside the wait                                            *)
(* or, in place of Wait(k), lane 0 passes the phase bit of cycle k - 1      *)
(* while its load of cycle k is in flight (InStale(k), StaleRet(k)).        *)

Arm(k) == 10 + 4 * k
Load(k) == 11 + 4 * k
Wait(k) == 12 + 4 * k
InWait(k) == 13 + 4 * k
InStale(k) == 50 + k
StaleRet(k) == 60 + k
RuEnd == 99

Cycles == 0..(MaxCycles - 1)

RuInitBarrier(t) == spc[t] = 1 /\ init_barrier(t, TRUE, 1) /\ Goto(t, 2)

\* __syncwarp() after the initialisation.
RuSyncWarp ==
    /\ \A t \in ThreadsOf(0) : spc[t] = 2
    /\ spc' = [t \in Threads |-> IF spc[t] = 2 THEN Load(0) ELSE spc[t]]
    /\ UNCHANGED <<hvars, issued, dvars>>

RuArm(t) ==
    \E k \in Cycles :
        spc[t] = Arm(k) /\ set_barrier_bytes(t, sizeof_ST(ST)) /\ Goto(t, Load(k))

RuLoad(t) ==
    \E k \in Cycles :
        spc[t] = Load(k) /\ load_async(t, k % DevBlocks) /\ Goto(t, Wait(k))

RuWaitEnter(t) ==
    \E k \in Cycles :
        spc[t] = Wait(k) /\ arrive_and_wait_enter(t, k % 2) /\ Goto(t, InWait(k))

\* last: the cycle after which the kernel ends.
RuWaitReturn(t, last) ==
    \E k \in 0..last :
        /\ spc[t] = InWait(k)
        /\ arrive_and_wait_return(t)
        /\ Goto(t, IF k = last THEN RuEnd ELSE Arm(k + 1))

RuStaleEnter(t) ==
    \E k \in Cycles \ {0} :
        /\ spc[t] = Wait(k)
        /\ load_async_issues(t)
        /\ loads # <<>>
        /\ arrive_and_wait_enter(t, (k - 1) % 2)
        /\ Goto(t, InStale(k))

RuStaleReturn(t) ==
    \E k \in Cycles :
        spc[t] = InStale(k) /\ arrive_and_wait_return(t) /\ Goto(t, StaleRet(k))

InitReuse ==
    /\ DevStart
    /\ spc = [t \in Threads |-> IF warpid(t) = 0 THEN 1 ELSE 0]

NextReuse ==
    \/ \E t \in Threads : RuInitBarrier(t)
    \/ RuSyncWarp
    \/ \E t \in Threads : RuArm(t)
    \/ \E t \in Threads : RuLoad(t)
    \/ \E t \in Threads : RuWaitEnter(t)
    \/ \E t \in Threads : RuWaitReturn(t, MaxCycles - 1)
    \/ \E t \in Threads : RuStaleEnter(t)
    \/ \E t \in Threads : RuStaleReturn(t)
    \/ \E k \in 1..MaxLoads, c \in Chunks : EngineLoad(k, c)

SpecReuse == InitReuse /\ [][NextReuse]_vars

----------------------------------------------------------------------------
(* SpecOnce: the reuse kernel cut after its first wait, every lane of warp  *)
(* 0 scheduled again and again and the copy engine delivering every byte    *)
(* of an issued load.                                                       *)

NextOnce ==
    \/ \E t \in Threads : RuInitBarrier(t)
    \/ RuSyncWarp
    \/ \E t \in Threads : RuLoad(t)
    \/ \E t \in Threads : RuWaitEnter(t)
    \/ \E t \in Threads : RuWaitReturn(t, 0)
    \/ \E t \in Threads, i \in TileIdx : Prefetch(t, i)
    \/ \E s \in TileIdx : L2Evict(s)
    \/ \E k \in 1..MaxLoads, c \in Chunks : EngineLoad(k, c)

FairOnce ==
    /\ \A t \in Threads : WF_vars(RuInitBarrier(t))
    /\ WF_vars(RuSyncWarp)
    /\ \A t \in Threads : WF_vars(RuLoad(t))
    /\ \A t \in Threads : WF_vars(RuWaitEnter(t))
    /\ \A t \in Threads : WF_vars(RuWaitReturn(t, 0))
    /\ WF_vars(\E k \in 1..MaxLoads, c \in Chunks : EngineLoad(k, c))

SpecOnce == InitReuse /\ [][NextOnce]_vars /\ FairOnce

----------------------------------------------------------------------------
(* Properties of the coordinates and of the descriptor.                     *)

\* An instruction was issued by the last warp-wide call.
Issued == issued.op # "none" /\ issued.lanes # {}

\* C1: for a tile type with a 2D layout and a tile index i, prefetch,
\* store_async and load_async each issue their instruction with the
\* coordinate (0, i * rows), hence all three with the same one.
C1_Coord2D ==
    (Issued /\ st_type_2d_tma_layout(ST)) => issued.crd = <<0, issued.idx * ST.rows>>

C1_Witness ==
    /\ Issued /\ issued.op = "load_async" /\ issued.idx = 2
    /\ ST.layout = "tma_swizzle" /\ ST.rows = 64 /\ issued.crd = <<0, 128>>

\* C2: for a tile type with a blocked layout and a tile index i, each of
\* the three operations issues (0, 0, 0, i * rows / 8, 0) for the
\* blocked-row layout and (0, 0, 0, 0, i * rows / 16) for the
\* blocked-col-transposed layout.
C2_Coord5D ==
    (Issued /\ ~st_type_2d_tma_layout(ST)) =>
        issued.crd = IF st_type_wgmma_row_layout(ST)
                     THEN <<0, 0, 0, (issued.idx * ST.rows) \div 8, 0>>
                     ELSE <<0, 0, 0, 0, (issued.idx * ST.rows) \div 16>>

C2_Witness ==
    /\ Issued /\ issued.op = "store_async" /\ issued.idx = 1
    /\ ST.layout = "wgmma_row_0b" /\ ST.rows = 128 /\ issued.crd = <<0, 0, 0, 16, 0>>

\* The boxes the three operations address for tile j.
BoxesOf(j) ==
    Box(tma_map, prefetch_crd(ST, j)) \cup Box(tma_map, store_async_crd(ST, j))
        \cup Box(tma_map, load_async_crd(ST, j))

\* C3: the global-memory elements an issued instruction addresses for
\* tile i < num_blocks are disjoint from the elements any of the three
\* operations addresses for another tile j < num_blocks.
C3_NoAliasing ==
    (Issued /\ issued.idx < num_blocks) =>
        \A j \in (0..(num_blocks - 1)) \ {issued.idx} :
            Box(tma_map, issued.crd) \cap BoxesOf(j) = {}

C3_Witness ==
    /\ Issued /\ issued.op = "store_async" /\ issued.idx = 1 /\ num_blocks = 2
    /\ ST.layout = "wgmma_row_0b"
    /\ Cardinality(Box(tma_map, issued.crd)) = ST.rows * ST.cols

\* C7: every warp-wide call of prefetch, store_async or load_async has
\* exactly one lane of the warp issue the instruction.
C7_SingleIssuer == issued.op # "none" => Cardinality(issued.lanes) = 1

\* Rows and cols are multiples of the minimum granularity and width is
\* the number of 32-byte granules of a row.
Granular(T) == T.rows % 16 = 0 /\ T.cols % 16 = 0 /\ WellFormed(T)

\* create_tensor_map ran and got to the encode call.
ReachedEncode == tma_map.status = "returned"

\* C8 as stated: the swizzled tile with rows = 64, cols = 64, width = 2
\* and num_blocks = 4 passes every check and reaches the encode call.
C8_Original ==
    (/\ tma_map.status # "unbuilt"
     /\ ST = [rows |-> 64, cols |-> 64, width |-> 2, layout |-> "tma_swizzle"]
     /\ num_blocks = 4 /\ AddrAligned(src_ptr))
        => (ReachedEncode /\ AssertsPass(ST, num_blocks, src_ptr))

\* C8 amended: the swizzled tile with rows = 64, cols = 64, width = 4
\* and num_blocks = 4 passes every check and reaches the encode call.
C8_Amended ==
    (/\ tma_map.status # "unbuilt"
     /\ ST = [rows |-> 64, cols |-> 64, width |-> 4, layout |-> "tma_swizzle"]
     /\ num_blocks = 4 /\ AddrAligned(src_ptr))
        => (ReachedEncode /\ AssertsPass(ST, num_blocks, src_ptr))

C8_Witness ==
    /\ ReachedEncode /\ ~ndebug
    /\ ST = [rows |-> 64, cols |-> 64, width |-> 4, layout |-> "tma_swizzle"]
    /\ num_blocks = 4 /\ AddrAligned(src_ptr)

\* C9 as stated: for every tile type whose rows and cols are multiples of
\* 16, every layout, every num_blocks and an aligned base pointer, no
\* assertion fails and the encode call is reached.
C9_Original ==
    (tma_map.status # "unbuilt" /\ Granular(ST) /\ AddrAligned(src_ptr))
        => (ReachedEncode /\ AssertsPass(ST, num_blocks, src_ptr))

\* The shared-side box of the tile has no entry above 256.
BoxFits(T) ==
    IF st_type_2d_tma_layout(T) THEN T.rows <= 256 /\ T.cols <= 256
    ELSE IF st_type_wgmma_row_layout(T) THEN T.rows <= 2048 /\ T.cols <= 4096
    ELSE T.cols <= 2048 /\ T.rows <= 4096

\* C9 amended: the same, for the tile types whose shared-side box has no
\* entry above 256.
C9_Amended ==
    (tma_map.status # "unbuilt" /\ Granular(ST) /\ BoxFits(ST) /\ AddrAligned(src_ptr))
        => (ReachedEncode /\ AssertsPass(ST, num_blocks, src_ptr))

C9_Witness ==
    /\ ReachedEncode /\ ~ndebug /\ Granular(ST) /\ AddrAligned(src_ptr)
    /\ ST.layout = "wgmma_col_t_0b" /\ ST.rows = 272 /\ ST.cols = 256 /\ num_blocks = 3

\* The product of the entries of a shape of the map's rank.
ShapeProduct(map, shape) ==
    IF map.dim = 2 THEN shape[1] * shape[2]
    ELSE shape[1] * shape[2] * shape[3] * shape[4] * shape[5]

\* C10: the global shape and strides of a built map send the in-range
\* coordinates one-to-one onto the element offsets
\* 0 .. num_blocks * rows * cols - 1, and the shared-side shape has
\* rows * cols elements.
C10_Reconstruction ==
    tma_map.result = "CUDA_SUCCESS" =>
        LET n == num_blocks * ST.rows * ST.cols IN
        /\ { Offset(tma_map, c) : c \in InRange(tma_map) } = 0..(n - 1)
        /\ ShapeProduct(tma_map, tma_map.gshape) = n
        /\ ShapeProduct(tma_map, tma_map.sshape) = ST.rows * ST.cols

C10_Witness ==
    /\ tma_map.result = "CUDA_SUCCESS" /\ ST.layout = "wgmma_col_t_0b"
    /\ ST.rows = 32 /\ ST.cols = 16 /\ num_blocks = 2
    /\ Cardinality(InRange(tma_map)) = 1024

----------------------------------------------------------------------------
(* Properties of the transfers.                                             *)

\* C4: when a lane of the round-trip kernel has returned from
\* arrive_and_wait, the destination tile holds the tile that was stored.
C4_RoundTrip == \A t \in Threads : spc[t] = RtEnd => dst_tile = src_tile

C4_Witness ==
    /\ \A t \in ThreadsOf(0) : spc[t] = RtEnd
    /\ dst_tile = SrcTile /\ gmem[RtIdx] = SrcTile /\ InitGmem[RtIdx] # SrcTile

\* The barrier was initialised by init_barrier<ST>(bar, 1), and the one
\* call that acted on it since is a load_async.
InitThenLoad ==
    /\ Len(bar_log) = 2
    /\ bar_log[1] = [op |-> "init_barrier", typed |-> TRUE, n |-> 1]
    /\ bar_log[2].op = "load_async"

\* C5: after init_barrier<ST>(bar, 1) and a load_async on it, a thread
\* leaves arrive_and_wait(bar, 0) only when no byte of the load is
\* outstanding: the tx-count is zero and the destination holds the tile.
C5_LoadComplete ==
    [][\A t \in Threads :
          (pc[t] = "try_wait" /\ pc'[t] = "run" /\ kPhaseBit[t] = 0 /\ InitThenLoad)
              => (bar.tx = 0 /\ loads = <<>> /\ dst_tile = gmem[bar_log[2].n])]_vars

\* A lane other than the issuing one is in arrive_and_wait(bar, 0) and its
\* try_wait succeeds, the load of tile 1 delivered.
C5_Witness ==
    /\ InitThenLoad /\ bar_log[2].n = 1
    /\ \E t \in Threads : laneid(t) # 0 /\ pc[t] = "try_wait" /\ kPhaseBit[t] = 0
    /\ mbarrier_try_wait_parity(bar, 0)
    /\ dst_tile = gmem[1] /\ dst_tile # ZeroTile

\* C6: when a lane returns from store_async_wait<N>, at most N of the
\* groups the issuing lane of its warp committed are incomplete.
C6_WaitBound ==
    [][\A t \in Threads :
          (pc[t] \in {"wait_group", "syncwarp"} /\ pc'[t] = "run")
              => Incomplete(groups[Issuer(warpid(t))]) <= waitN[t]]_vars

\* Every lane of warp 0 is through its wait_group 1 and about to be
\* released, one committed group of lane 0 incomplete, a store delivered.
C6_Witness ==
    /\ syncwarp_done(0, pc)
    /\ \A t \in ThreadsOf(0) : waitN[t] = 1
    /\ Len(groups[Issuer(0)]) = 1 /\ Incomplete(groups[Issuer(0)]) = 1
    /\ \E s \in DOMAIN gmem : gmem[s] = SrcTile

----------------------------------------------------------------------------
(* Properties of the construction checks.                                   *)

\* C11: create_tensor_map gets to the encode call only with arguments
\* that satisfy every construction-time check.
C11_RejectBeforeEncode ==
    ReachedEncode => AssertsPass(ST, num_blocks, src_ptr)

----------------------------------------------------------------------------
(* Properties of the barrier.                                               *)

\* C12 as stated: a call of arrive_and_wait with the phase bit of the
\* preceding, completed phase never returns.
C12_Original == \A t \in Threads, k \in Cycles : spc[t] # StaleRet(k)

\* C12, amended: a call of arrive_and_wait with the phase bit of the
\* preceding, completed phase is not held back by the phase in progress:
\* while the load of the current cycle is in flight its try_wait succeeds.
C12_StalePasses ==
    \A t \in Threads, k \in Cycles :
        (spc[t] = InStale(k) /\ loads # <<>>)
            => mbarrier_try_wait_parity(bar, kPhaseBit[t])

\* Lane 0 is back from the wait it called with the stale bit, the load of
\* the cycle in flight and the destination not the tile yet.
C12_Witness ==
    \E t \in Threads, k \in Cycles :
        /\ spc[t] = StaleRet(k)
        /\ loads # <<>>
        /\ bar.tx > 0
        /\ dst_tile # gmem[k % DevBlocks]

\* C13: a call of arrive_and_wait on an initialised barrier that still
\* expects arrivals counts as one arrival: it takes one off the pending
\* arrivals or completes the phase.
C13_CallArrives ==
    [][\A t \in Threads :
          (pc[t] = "run" /\ pc'[t] = "try_wait" /\ bar.inited /\ bar.pending > 0)
              => (bar'.pending = bar.pending - 1 \/ bar'.phase # bar.phase)]_vars

\* The barrier was initialised and no call acted on it since.
OnlyInit == Len(bar_log) = 1 /\ bar_log[1].op = "init_barrier"

\* C14 as stated: after init_barrier<T>(b, tc) the barrier has threshold
\* tc with tc arrivals still required, and a byte budget of sizeof(T) if
\* and only if T is a tile type.
C14_Original ==
    OnlyInit =>
        /\ bar.count = bar_log[1].n
        /\ bar.pending = bar_log[1].n
        /\ bar.tx = IF bar_log[1].typed THEN sizeof_ST(ST) ELSE 0

\* C14, amended: after init_barrier<T>(b, tc) the barrier has threshold tc
\* and is in phase 0; with a tile type T it has a byte budget of sizeof(T)
\* and, the arming being an arrival, tc - 1 arrivals still required; with
\* the default T it has no byte budget and tc arrivals still required.
C14_InitState ==
    OnlyInit =>
        /\ bar.inited /\ bar.phase = 0
        /\ bar.count = bar_log[1].n
        /\ bar.pending = IF bar_log[1].typed THEN bar_log[1].n - 1 ELSE bar_log[1].n
        /\ bar.tx = IF bar_log[1].typed THEN sizeof_ST(ST) ELSE 0

\* init_barrier<ST>(b, 2) ran: one arrival is still required.
C14_Witness ==
    /\ OnlyInit /\ bar_log[1].typed /\ bar_log[1].n = 2
    /\ bar.pending = 1 /\ bar.tx = sizeof_ST(ST) /\ bar.tx > 0

----------------------------------------------------------------------------
(* Properties of prefetch.                                                  *)

----------------------------------------------------------------------------
(* Properties of the encode result.                                         *)

\* create_tensor_map came to its end (line 181): it has no return value and
\* no other exit than the failing assert.
ReturnedNormally == tma_map.status = "returned"

\* C16: create_tensor_map returns to its caller as from a successful
\* construction only when the encode call succeeded; a failed encode is
\* reported on the diagnostic sink and told to the caller.
C16_FailureTold ==
    /\ ReturnedNormally => tma_map.result = "CUDA_SUCCESS"
    /\ (tma_map.status # "unbuilt" /\ tma_map.result = "CUDA_SUCCESS") => cerr = <<>>

----------------------------------------------------------------------------
(* Properties of the store groups.                                          *)

\* C17: a commit puts exactly the stores lane 0 issued since its previous
\* commit, those still in flight, into one new group and leaves none
\* uncommitted; and when a lane returns from store_async_wait<0> every
\* committed group of lane 0 is complete, whatever is uncommitted.
C17_CommitSeals ==
    [][/\ \A t \in Threads :
             Len(groups'[t]) > Len(groups[t]) =>
                 (groups'[t] = Append(groups[t], open[t]) /\ open'[t] = <<>>)
       /\ \A t \in Threads :
             (pc[t] = "syncwarp" /\ pc'[t] = "run" /\ waitN[t] = 0) =>
                 \A g \in 1..Len(groups[Issuer(warpid(t))]) :
                     groups[Issuer(warpid(t))][g] = <<>>]_vars

\* Warp 0 is about to return from store_async_wait<0>: a committed store
\* of lane 0 has written its tile, and a store lane 0 issued after the
\* commit has not written anything yet.
C17_Witness ==
    /\ syncwarp_done(0, pc)
    /\ \A t \in ThreadsOf(0) : waitN[t] = 0
    /\ Incomplete(groups[Issuer(0)]) = 0
    /\ \E s \in DOMAIN gmem :
          /\ gmem[s] = SrcTile
          /\ \E k \in 1..Len(open[Issuer(0)]) :
                /\ open[Issuer(0)][k].slot # s
                /\ open[Issuer(0)][k].left = Chunks
                /\ gmem[open[Issuer(0)][k].slot] = InitGmem[open[Issuer(0)][k].slot]
    /\ \A t \in Threads \ {Issuer(0)} : open[t] = <<>> /\ groups[t] = <<>>

----------------------------------------------------------------------------
(* Properties of the reuse of a barrier.                                    *)

\* The waits of the reuse kernel a thread is through.
Passed(t) ==
    IF spc[t] = RuEnd THEN MaxCycles
    ELSE IF spc[t] >= StaleRet(0) THEN spc[t] - StaleRet(0)
    ELSE IF spc[t] >= InStale(0) THEN spc[t] - InStale(0)
    ELSE IF spc[t] >= Arm(0) THEN (spc[t] - Arm(0)) \div 4
    ELSE 0

\* The load_async calls that reached the barrier.
LoadsIssued == Cardinality({ j \in 1..Len(bar_log) : bar_log[j].op = "load_async" })

\* C18: in the reuse kernel a thread that is through the wait of cycle k,
\* called with phase bit k mod 2, finds the load of cycle k issued and
\* all its bytes arrived; until the next load is issued no load is in
\* flight and the destination holds the tile of cycle k.
C18_Reuse ==
    \A t \in Threads :
        Passed(t) >= 1 =>
            /\ LoadsIssued >= Passed(t)
            /\ LoadsIssued = Passed(t) =>
                  /\ loads = <<>>
                  /\ dst_tile = gmem[(Passed(t) - 1) % DevBlocks]

\* Every lane is through the waits with the phase bits 0, 1, 0, ..; the
\* barrier was initialised once and armed again for every later cycle.
C18_Witness ==
    /\ \A t \in ThreadsOf(0) : spc[t] = RuEnd
    /\ LoadsIssued = MaxCycles /\ loads = <<>>
    /\ Cardinality({ j \in 1..Len(bar_log) : bar_log[j].op = "init_barrier" }) = 1
    /\ Cardinality({ j \in 1..Len(bar_log) : bar_log[j].op = "set_barrier_bytes" })
          = MaxCycles - 1
    /\ bar.phase = MaxCycles % 2
    /\ dst_tile = gmem[(MaxCycles - 1) % DevBlocks]

----------------------------------------------------------------------------
(* Properties of the wait.                                                  *)

\* C19: after init_barrier<ST>(b, 1) and one load_async against b, with
\* the copy engine delivering every byte, every lane that has called
\* arrive_and_wait(b, 0) eventually returns, no other arrival made; and a
\* lane has returned only if the load was issued and is complete.
C19_WaitLive ==
    /\ \A t \in ThreadsOf(0) : (spc[t] = InWait(0)) ~> (spc[t] = RuEnd)
    /\ [](\A t \in ThreadsOf(0) :
             spc[t] = RuEnd =>
                 (LoadsIssued = 1 /\ loads = <<>> /\ bar.tx = 0 /\ dst_tile = gmem[0]))

\* Every lane is back from the wait; the barrier saw the initialisation
\* and the load and nothing else.
C19_Witness ==
    /\ \A t \in ThreadsOf(0) : spc[t] = RuEnd
    /\ InitThenLoad /\ loads = <<>> /\ dst_tile = gmem[0] /\ bar.phase = 1

----------------------------------------------------------------------------
(* Properties of the addressed box.                                         *)

\* The box that starts at crd lies inside the global shape of the map in
\* every dimension.
BoxInside(map, crd) ==
    \A k \in 1..map.dim :
        /\ Pad5(map, crd)[k] >= 0
        /\ Pad5(map, crd)[k] + map.sshape[k] <= map.gshape[k]

\* C20: the box an issued prefetch, store_async or load_async addresses
\* for a tile index below num_blocks lies inside the global shape in
\* every dimension; for an index of num_blocks or more it does not.
C20_InBounds ==
    Issued =>
        (issued.idx < num_blocks <=> BoxInside(tma_map, issued.crd))

\* A load of the last tile in the blocked-col-transposed layout.
C20_Witness ==
    /\ Issued /\ issued.op = "load_async" /\ ST.layout = "wgmma_col_t_0b"
    /\ num_blocks = 2 /\ issued.idx = 1
    /\ BoxInside(tma_map, issued.crd)
    /\ Box(tma_map, issued.crd) \subseteq { Offset(tma_map, c) : c \in InRange(tma_map) }

====
